---- MODULE Spec2Model ----
(***************************************************************************)
(* Model of contact-merge.py: the similarity scorer, the field merger, the *)
(* field-order tracker, the two deduplication modes and the part of main   *)
(* that drives them.                                                       *)
(*                                                                         *)
(* A string is a sequence of one-character strings.  A contact (an         *)
(* OrderedDict) is a sequence of <<key, value>> pairs in insertion order,  *)
(* no key twice.  A score (a Python float) is an exact fraction <<n, d>>   *)
(* in lowest terms, d > 0; float rounding is not modelled.                 *)
(***************************************************************************)
EXTENDS Integers, Sequences, FiniteSets, TLC

----------------------------------------------------------------------------
(* Characters and the str methods the program uses *)

Digits == {"0", "1", "2", "3", "4", "5", "6", "7", "8", "9"}

Whitespace == {" "}

UpperToLower == [c \in {"A", "B"} |-> IF c = "A" THEN "a" ELSE "b"]

\* ord(c), for sorted()
ord(c) ==
    CASE c = " " -> 32
      [] c = "-" -> 45
      [] c = "." -> 46
      [] c = "/" -> 47
      [] c \in Digits -> 48 + (CHOOSE k \in 0..9 : <<"0", "1", "2", "3", "4", "5", "6", "7", "8", "9">>[k + 1] = c)
      [] c = ";" -> 59
      [] c = "A" -> 65
      [] c = "B" -> 66
      [] c = "a" -> 97
      [] c = "b" -> 98

\* str.lower()
lower(s) == [k \in 1..Len(s) |-> IF s[k] \in DOMAIN UpperToLower THEN UpperToLower[s[k]] ELSE s[k]]

RECURSIVE lstrip(_)
lstrip(s) == IF s # <<>> /\ Head(s) \in Whitespace THEN lstrip(Tail(s)) ELSE s

RECURSIVE rstrip(_)
rstrip(s) ==
    IF s # <<>> /\ s[Len(s)] \in Whitespace THEN rstrip(SubSeq(s, 1, Len(s) - 1)) ELSE s

\* str.strip()
strip(s) == rstrip(lstrip(s))

\* str.split(sep) for a one-character sep: always at least one piece
RECURSIVE split(_, _)
split(s, sep) ==
    IF \A k \in 1..Len(s) : s[k] # sep
    THEN <<s>>
    ELSE LET p == CHOOSE k \in 1..Len(s) : s[k] = sep /\ \A m \in 1..(k - 1) : s[m] # sep
         IN  <<SubSeq(s, 1, p - 1)>> \o split(SubSeq(s, p + 1, Len(s)), sep)

\* str.split() with no argument: the whitespace-separated tokens, none empty
RECURSIVE split_ws(_)
split_ws(s) ==
    LET t == lstrip(s)
    IN  IF t = <<>>
        THEN <<>>
        ELSE LET ends == {k \in 1..Len(t) : t[k] \in Whitespace}
                 p == IF ends = {} THEN Len(t) + 1
                      ELSE CHOOSE k \in ends : \A m \in ends : k <= m
             IN  <<SubSeq(t, 1, p - 1)>> \o split_ws(SubSeq(t, p, Len(t)))

Range(f) == {f[k] : k \in DOMAIN f}

\* re.sub(r'\D', '', phone)
RECURSIVE normalize_phone(_)
normalize_phone(phone) ==
    IF phone = <<>> THEN <<>>
    ELSE IF Head(phone) \in Digits
         THEN <<Head(phone)>> \o normalize_phone(Tail(phone))
         ELSE normalize_phone(Tail(phone))

----------------------------------------------------------------------------
(* Scores: exact fractions *)

RECURSIVE GCD(_, _)
GCD(a, b) == IF b = 0 THEN a ELSE GCD(b, a % b)

Frac(n, d) == LET g == GCD(n, d) IN IF n = 0 THEN <<0, 1>> ELSE <<n \div g, d \div g>>

FracAdd(x, y) == Frac(x[1] * y[2] + y[1] * x[2], x[2] * y[2])

FracLeq(x, y) == x[1] * y[2] <= y[1] * x[2]

FracMax(x, y) == IF FracLeq(x, y) THEN y ELSE x

RECURSIVE SeqSum(_)
SeqSum(scores) == IF scores = <<>> THEN <<0, 1>> ELSE FracAdd(Head(scores), SeqSum(Tail(scores)))

\* max() of a non-empty set of scores
SetMax(S) == CHOOSE x \in S : \A y \in S : FracLeq(y, x)

----------------------------------------------------------------------------
(* rapidfuzz.fuzz *)

\* length of the longest common subsequence
RECURSIVE LCS(_, _)
LCS(s, t) ==
    IF s = <<>> \/ t = <<>> THEN 0
    ELSE IF Head(s) = Head(t) THEN 1 + LCS(Tail(s), Tail(t))
    ELSE LET x == LCS(Tail(s), t)
             y == LCS(s, Tail(t))
         IN  IF x >= y THEN x ELSE y

\* the insertion/deletion distance
Indel(s, t) == Len(s) + Len(t) - 2 * LCS(s, t)

\* 100 - 100 * dist / lensum, and 100 when lensum is 0
norm_distance(dist, lensum) ==
    IF lensum = 0 THEN <<100, 1>> ELSE Frac(100 * (lensum - dist), lensum)

\* fuzz.ratio: the normalized Indel similarity, 0..100
fuzz_ratio(s, t) == norm_distance(Indel(s, t), Len(s) + Len(t))

\* s < t for strings
RECURSIVE StrLess(_, _)
StrLess(s, t) ==
    IF t = <<>> THEN FALSE
    ELSE IF s = <<>> THEN TRUE
    ELSE IF Head(s) = Head(t) THEN StrLess(Tail(s), Tail(t))
    ELSE ord(Head(s)) < ord(Head(t))

\* " ".join(sorted(S)) for a set of tokens
RECURSIVE JoinSorted(_)
JoinSorted(S) ==
    IF S = {} THEN <<>>
    ELSE LET m == CHOOSE x \in S : \A y \in S \ {x} : StrLess(x, y)
             rest == JoinSorted(S \ {m})
         IN  IF rest = <<>> THEN m ELSE m \o <<" ">> \o rest

\* fuzz.token_set_ratio, from the joined difference strings on
TokenSetJoined(sect_len, sep, diff_ab_joined, diff_ba_joined) ==
    LET ab_len == Len(diff_ab_joined)
        ba_len == Len(diff_ba_joined)
        sect_ab_len == sect_len + sep + ab_len
        sect_ba_len == sect_len + sep + ba_len
        result == norm_distance(Indel(diff_ab_joined, diff_ba_joined), sect_ab_len + sect_ba_len)
        sect_ab_ratio == norm_distance(sep + ab_len, sect_len + sect_ab_len)
        sect_ba_ratio == norm_distance(sep + ba_len, sect_len + sect_ba_len)
    IN  IF sect_len = 0 THEN result
        ELSE FracMax(result, FracMax(sect_ab_ratio, sect_ba_ratio))

\* fuzz.token_set_ratio, from the token sets on
TokenSetParts(intersect, diff_ab, diff_ba, sect_len) ==
    IF intersect # {} /\ (diff_ab = {} \/ diff_ba = {}) THEN <<100, 1>>
    ELSE TokenSetJoined(sect_len, IF sect_len # 0 THEN 1 ELSE 0,
                        JoinSorted(diff_ab), JoinSorted(diff_ba))

TokenSets(tokens_a, tokens_b) ==
    IF tokens_a = {} \/ tokens_b = {} THEN <<0, 1>>
    ELSE TokenSetParts(tokens_a \cap tokens_b, tokens_a \ tokens_b, tokens_b \ tokens_a,
                       Len(JoinSorted(tokens_a \cap tokens_b)))

\* fuzz.token_set_ratio
fuzz_token_set_ratio(s1, s2) == TokenSets(Range(split_ws(s1)), Range(split_ws(s2)))

----------------------------------------------------------------------------
(* Contacts: OrderedDict as a sequence of <<key, value>> pairs *)

Keys(contact) == {contact[k][1] : k \in DOMAIN contact}

\* key in contact
Has(contact, key) == key \in Keys(contact)

\* contact[key], for a key the contact has
Get(contact, key) == contact[CHOOSE k \in DOMAIN contact : contact[k][1] = key][2]

\* contact.get(key, default)
GetOr(contact, key, default) == IF Has(contact, key) THEN Get(contact, key) ELSE default

\* contact[key] = value: in place for a key it has, appended for a new key
Put(contact, key, value) ==
    IF Has(contact, key)
    THEN [k \in DOMAIN contact |-> IF contact[k][1] = key THEN <<key, value>> ELSE contact[k]]
    ELSE Append(contact, <<key, value>>)

\* contact.get(key) is truthy: present and not the empty string
Truthy(contact, key) == Has(contact, key) /\ Get(contact, key) # <<>>

----------------------------------------------------------------------------
(* compute_match_score *)

\* [normalize_phone(p) for p in tel.split(';') if p.strip()], then "if pa and pb"
Phones(tel) ==
    LET parts == split(tel, ";")
    IN  {normalize_phone(parts[k]) : k \in {m \in DOMAIN parts : strip(parts[m]) # <<>>}} \ {<<>>}

\* [p.strip().lower() for p in email.split(';') if p.strip()], then "if ea and eb"
Emails(email) ==
    LET parts == split(email, ";")
    IN  {lower(strip(parts[k])) : k \in {m \in DOMAIN parts : strip(parts[m]) # <<>>}} \ {<<>>}

\* max(fuzz.ratio(x, y)) over the pairs; <<>> (nothing appended) when there is no pair
BestRatio(A, B) ==
    IF A = {} \/ B = {} THEN <<>>
    ELSE <<SetMax({fuzz_ratio(x, y) : x \in A, y \in B})>>

PhoneScores(a, b) ==
    IF Truthy(a, "tel") /\ Truthy(b, "tel")
    THEN BestRatio(Phones(Get(a, "tel")), Phones(Get(b, "tel")))
    ELSE <<>>

EmailScores(a, b) ==
    IF Truthy(a, "email") /\ Truthy(b, "email")
    THEN BestRatio(Emails(Get(a, "email")), Emails(Get(b, "email")))
    ELSE <<>>

NameScores(a, b) ==
    IF Truthy(a, "fn") /\ Truthy(b, "fn")
    THEN <<fuzz_token_set_ratio(Get(a, "fn"), Get(b, "fn"))>>
    ELSE <<>>

\* mutant: the sum is not divided
Mean_Sum(scores) == SeqSum(scores)

\* sum(scores) / len(scores)
Mean(scores) == LET t == SeqSum(scores) IN Frac(t[1], t[2] * Len(scores))

compute_match_score(contact_a, contact_b) ==
    LET scores == PhoneScores(contact_a, contact_b) \o EmailScores(contact_a, contact_b)
                  \o NameScores(contact_a, contact_b)
    IN  IF scores # <<>> THEN Mean(scores) ELSE <<0, 1>>

\* mutant: score > threshold
AtLeast_Strict(score, threshold) == score[1] > threshold * score[2]

\* score >= threshold, threshold a number
AtLeast(score, threshold) == score[1] >= threshold * score[2]

\* str(k) for an integer k >= 0
RECURSIVE IntStr(_)
IntStr(k) ==
    LET d == <<(<<"0", "1", "2", "3", "4", "5", "6", "7", "8", "9">>)[(k % 10) + 1]>>
    IN  IF k < 10 THEN d ELSE IntStr(k \div 10) \o d

\* str(score): "100.0" for a whole number; the text of any other float is written n/d here,
\* one text per number as in Python
Str(score) ==
    IF score[2] = 1 THEN IntStr(score[1]) \o <<".", "0">>
    ELSE IntStr(score[1]) \o <<"/">> \o IntStr(score[2])

----------------------------------------------------------------------------
(* merge_contacts *)

\* mutant: only uid is skipped
MetaKeys_UidOnly == {"uid"}

MetaKeys == {"uid", "match", "certainty"}

\* mutant: a differing value replaces the master's instead of being appended
MergeField_Overwrite(master, key, value) ==
    IF key \in MetaKeys \/ strip(value) = <<>> THEN master ELSE Put(master, key, strip(value))

\* one iteration of the loop over duplicate.items()
MergeField(master, key, value) ==
    LET dup_value == strip(value)
        master_value == strip(GetOr(master, key, <<>>))
    IN  IF key \in MetaKeys THEN master
        ELSE IF master_value = <<>> /\ dup_value # <<>> THEN Put(master, key, dup_value)
        ELSE IF dup_value # <<>> /\ dup_value \notin Range(split(master_value, ";"))
             THEN Put(master, key, master_value \o <<";">> \o dup_value)
        ELSE master

\* the master after merge_contacts(master, duplicate)
RECURSIVE merge_contacts(_, _)
merge_contacts(master, duplicate) ==
    IF duplicate = <<>> THEN master
    ELSE merge_contacts(MergeField(master, Head(duplicate)[1], Head(duplicate)[2]),
                        Tail(duplicate))

----------------------------------------------------------------------------
(* compute_field_order *)

\* mutant: no "if key not in order"
RECURSIVE OrderKeys_Repeat(_, _)
OrderKeys_Repeat(order, contact) ==
    IF contact = <<>> THEN order
    ELSE LET key == Head(contact)[1]
         IN  OrderKeys_Repeat(IF key \in {"match", "certainty"} THEN order
                              ELSE Append(order, key),
                              Tail(contact))

\* the inner loop: the keys of one contact
RECURSIVE OrderKeys(_, _)
OrderKeys(order, contact) ==
    IF contact = <<>> THEN order
    ELSE LET key == Head(contact)[1]
         IN  OrderKeys(IF key \in {"match", "certainty"} \/ key \in Range(order)
                       THEN order ELSE Append(order, key),
                       Tail(contact))

RECURSIVE OrderFrom(_, _)
OrderFrom(order, cs) ==
    IF cs = <<>> THEN order ELSE OrderFrom(OrderKeys(order, Head(cs)), Tail(cs))

compute_field_order(cs) == OrderFrom(<<>>, cs)

----------------------------------------------------------------------------
(* deduplicate_contacts, one iteration of the outer loop at a time.        *)
(* Contacts are numbered 1..n here (Python's index plus one); masters is   *)
(* the list of references to master contacts, held as their numbers, so a  *)
(* merge into a master changes the contact the input list holds too.       *)

\* mutant: no break, the last candidate that reaches the threshold wins
FirstMatch_Last(current, candidates, cs, threshold) ==
    LET hits == {p \in DOMAIN candidates :
                    AtLeast(compute_match_score(current, cs[candidates[p]]), threshold)}
    IN  IF hits = {} THEN 0 ELSE candidates[CHOOSE p \in hits : \A q \in hits : p >= q]

\* the first candidate, in list order, whose score reaches the threshold; 0 if none
FirstMatch(current, candidates, cs, threshold) ==
    LET hits == {p \in DOMAIN candidates :
                    AtLeast(compute_match_score(current, cs[candidates[p]]), threshold)}
    IN  IF hits = {} THEN 0 ELSE candidates[CHOOSE p \in hits : \A q \in hits : p <= q]

\* current['match'] = candidate['uid']; current['certainty'] = str(score)
LinkTo(cs, i, j, score) ==
    IF j = 0 THEN [contacts |-> cs, raised |-> "none"]
    ELSE IF ~Has(cs[j], "uid") THEN [contacts |-> cs, raised |-> "KeyError"]
    ELSE [contacts |-> [cs EXCEPT ![i] = Put(Put(cs[i], "match", Get(cs[j], "uid")),
                                             "certainty", Str(score))],
          raised |-> "none"]

LinkAt(cs, i, j) == LinkTo(cs, i, j, IF j = 0 THEN <<0, 1>> ELSE compute_match_score(cs[i], cs[j]))

\* link mode, the body of "for i in range(1, len(contacts))" for contact i
LinkIter(cs, i, threshold) ==
    LinkAt(cs, i, FirstMatch(cs[i], [k \in 1..(i - 1) |-> k], cs, threshold))

\* the found_match branch: the dry run's notice, or merge_contacts(master, contact)
MergeInto(cs, ms, lg, i, m, dry_run, entry) ==
    IF dry_run
    THEN IF Has(cs[i], "uid") /\ Has(cs[m], "uid")
         THEN [contacts |-> cs, masters |-> ms, log |-> Append(lg, entry), raised |-> "none"]
         ELSE [contacts |-> cs, masters |-> ms, log |-> lg, raised |-> "KeyError"]
    ELSE [contacts |-> [cs EXCEPT ![m] = merge_contacts(cs[m], cs[i])],
          masters |-> ms, log |-> Append(lg, entry), raised |-> "none"]

MergeAt(cs, ms, lg, i, m, dry_run) ==
    IF m = 0
    THEN [contacts |-> cs, masters |-> Append(ms, i), log |-> lg, raised |-> "none"]
    ELSE MergeInto(cs, ms, lg, i, m, dry_run,
                   [duplicate |-> i, master |-> m, score |-> compute_match_score(cs[i], cs[m])])

\* merge mode, the body of "for contact in contacts" for contact i
MergeIter(cs, ms, lg, i, threshold, dry_run) ==
    MergeAt(cs, ms, lg, i, FirstMatch(cs[i], ms, cs, threshold), dry_run)

\* merge mode from contact i to the end of the list: the whole call when i = 1
RECURSIVE MergeFrom(_, _, _, _, _, _)
MergeFrom(cs, ms, lg, i, threshold, dry_run) ==
    IF i > Len(cs) THEN [contacts |-> cs, masters |-> ms, log |-> lg, raised |-> "none"]
    ELSE LET r == MergeIter(cs, ms, lg, i, threshold, dry_run)
         IN  IF r.raised # "none" THEN r
             ELSE MergeFrom(r.contacts, r.masters, r.log, i + 1, threshold, dry_run)

\* link mode from contact i to the end of the list
RECURSIVE LinkFrom(_, _, _)
LinkFrom(cs, i, threshold) ==
    IF i > Len(cs)
    THEN [contacts |-> cs, masters |-> [k \in 1..Len(cs) |-> k], log |-> <<>>, raised |-> "none"]
    ELSE LET r == LinkIter(cs, i, threshold)
         IN  IF r.raised # "none"
             THEN [contacts |-> cs, masters |-> <<>>, log |-> <<>>, raised |-> r.raised]
             ELSE LinkFrom(r.contacts, i + 1, threshold)

\* a whole call: the contacts as it leaves them, the list it returns (as contact
\* numbers), the matches it acted on, and the exception if it raised one
deduplicate_contacts(cs, threshold, merge, dry_run) ==
    IF ~merge THEN LinkFrom(cs, 2, threshold)
    ELSE MergeFrom(cs, <<>>, <<>>, 1, threshold, dry_run)

----------------------------------------------------------------------------
(* Inputs *)

MaxRecords == 3

DefaultThreshold == 80

Thresholds == {50, DefaultThreshold}

TelPool == {<<"5">>, <<" ", "6", ";", "7">>}

FnPool == {<<"a">>}

\* what one source entry says: a tel and a full name, <<>> for none
Entries == (TelPool \cup {<<>>}) \X (FnPool \cup {<<>>})

\* str(idx)
IdxStr(k) == IntStr(k)

Field(key, value) == IF value = <<>> THEN <<>> ELSE <<<<key, value>>>>

\* parse_vcf_to_contacts: uid, the vCard's fields, then empty match and certainty
VcfContact(k, e) ==
    <<<<"uid", IdxStr(k - 1)>>>> \o Field("tel", e[1]) \o Field("fn", e[2])
    \o <<<<"match", <<>>>>, <<"certainty", <<>>>>>>

\* import_csv_to_contacts of a file with the columns tel, fn
CsvContact(e) == <<<<"tel", e[1]>>, <<"fn", e[2]>>>>

\* import_csv_to_contacts of a file this program exported in link mode;
\* linked: the row carries a link to the first contact from that run
ExportedCsvContact(k, e, linked) ==
    <<<<"match", IF linked THEN IdxStr(0) ELSE <<>>>>,
      <<"certainty", IF linked THEN Str(<<100, 1>>) ELSE <<>>>>,
      <<"uid", IdxStr(k - 1)>>, <<"tel", e[1]>>, <<"fn", e[2]>>>>

EntryLists == UNION {[1..n -> Entries] : n \in 0..MaxRecords}

VcfInputs == {[k \in DOMAIN es |-> VcfContact(k, es[k])] : es \in EntryLists}

CsvInputs == {[k \in DOMAIN es |-> CsvContact(es[k])] : es \in EntryLists}

\* that run linked nothing, or every contact after the first to the first
ExportedCsvInputs ==
    {[k \in DOMAIN es |-> ExportedCsvContact(k, es[k], linked /\ k > 1)]
        : es \in EntryLists, linked \in BOOLEAN}

Inputs == VcfInputs \cup CsvInputs \cup ExportedCsvInputs

ArgSets == [threshold : Thresholds, merge : BOOLEAN, dry_run : BOOLEAN]

----------------------------------------------------------------------------
(* main *)

VARIABLES
    contacts,     \* the list main imported, its contacts changed in place
    orig,         \* the contacts as imported
    args,         \* the parsed command line
    pc,           \* where main is
    idx,          \* the contact the deduplication loop is at
    masters,      \* merge mode's list of masters
    log,          \* the matches acted on: merged, or printed by a dry run
    field_order,  \* main's field_order
    deduped,      \* what deduplicate_contacts returned, as contact numbers
    output,       \* the exporter calls made
    status,       \* the exit status, "running" until the process ends
    raised,       \* the exception that ended the process, if any
    result,       \* what the function under study returned (the function-level specifications)
    previous      \* what its call before that returned

vars == <<contacts, orig, args, pc, idx, masters, log, field_order, deduped, output, status,
          raised, result, previous>>

\* the variables of the function-level specifications, which main leaves alone
calls == <<result, previous>>

Init ==
    /\ contacts \in Inputs
    /\ orig = contacts
    /\ args \in ArgSets
    /\ pc = "imported"
    /\ idx = 0
    /\ masters = <<>>
    /\ log = <<>>
    /\ field_order = <<>>
    /\ deduped = <<>>
    /\ output = <<>>
    /\ status = "running"
    /\ raised = "none"
    /\ result = <<>>
    /\ previous = <<>>

\* "if not contacts": sys.exit(1)
EmptyInput ==
    /\ pc = "imported"
    /\ contacts = <<>>
    /\ pc' = "exit"
    /\ status' = 1
    /\ UNCHANGED <<contacts, orig, args, idx, masters, log, field_order, deduped, output, raised, calls>>

\* field_order = compute_field_order(contacts), then the call of deduplicate_contacts
ComputeOrder ==
    /\ pc = "imported"
    /\ contacts # <<>>
    /\ field_order' = compute_field_order(contacts)
    /\ pc' = "dedupe"
    /\ idx' = IF args.merge THEN 1 ELSE 2
    /\ UNCHANGED <<contacts, orig, args, masters, log, deduped, output, status, raised, calls>>

\* an uncaught exception ends the process with status 1
Crash(exc) ==
    /\ pc' = "exit"
    /\ status' = 1
    /\ raised' = exc
    /\ UNCHANGED <<contacts, idx, masters, log, deduped>>

\* the loop goes on with what the iteration left, or the exception ends the process
LinkResult(r) ==
    IF r.raised # "none" THEN Crash(r.raised)
    ELSE /\ contacts' = r.contacts
         /\ idx' = idx + 1
         /\ UNCHANGED <<pc, masters, log, deduped, status, raised>>

MergeResult(r) ==
    IF r.raised # "none" THEN Crash(r.raised)
    ELSE /\ contacts' = r.contacts
         /\ masters' = r.masters
         /\ log' = r.log
         /\ idx' = idx + 1
         /\ UNCHANGED <<pc, deduped, status, raised>>

LinkStep ==
    /\ pc = "dedupe"
    /\ ~args.merge
    /\ idx <= Len(contacts)
    /\ LinkResult(LinkIter(contacts, idx, args.threshold))
    /\ UNCHANGED <<orig, args, field_order, output, calls>>

MergeStep ==
    /\ pc = "dedupe"
    /\ args.merge
    /\ idx <= Len(contacts)
    /\ MergeResult(MergeIter(contacts, masters, log, idx, args.threshold, args.dry_run))
    /\ UNCHANGED <<orig, args, field_order, output, calls>>

\* "return contacts" or "return masters"
Return ==
    /\ pc = "dedupe"
    /\ idx > Len(contacts)
    /\ deduped' = IF args.merge THEN masters ELSE [k \in 1..Len(contacts) |-> k]
    /\ pc' = "deduped"
    /\ UNCHANGED <<contacts, orig, args, idx, masters, log, field_order, output, status, raised, calls>>

\* "if args.merge and args.dry_run": sys.exit(0)
DryRunExit ==
    /\ pc = "deduped"
    /\ args.merge /\ args.dry_run
    /\ pc' = "exit"
    /\ status' = 0
    /\ UNCHANGED <<contacts, orig, args, idx, masters, log, field_order, deduped, output, raised, calls>>

\* write_contacts_to_csv or write_contacts_to_vcf, by --output-format; main then ends
Export ==
    /\ pc = "deduped"
    /\ ~(args.merge /\ args.dry_run)
    /\ \E output_format \in {"csv", "vcf"} :
          output' = Append(output, [format |-> output_format,
                                    header |-> IF output_format = "csv"
                                               THEN <<"match", "certainty">> \o field_order
                                               ELSE field_order,
                                    rows |-> [k \in DOMAIN deduped |-> contacts[deduped[k]]]])
    /\ pc' = "exit"
    /\ status' = 0
    /\ UNCHANGED <<contacts, orig, args, idx, masters, log, field_order, deduped, raised, calls>>

Next ==
    \/ EmptyInput
    \/ ComputeOrder
    \/ LinkStep
    \/ MergeStep
    \/ Return
    \/ DryRunExit
    \/ Export

Spec == Init /\ [][Next]_vars

----------------------------------------------------------------------------
(* Properties of main and deduplicate_contacts, under Spec *)

n == Len(orig)

\* the score of two contacts as imported reaches the threshold
Scores(i, j) ==
    LET sc == compute_match_score(orig[i], orig[j])
    IN  sc[1] >= args.threshold * sc[2]

\* the earlier contacts that contact i scores at least the threshold against
Hits(i) == {j \in 1..(i - 1) : Scores(i, j)}

Earliest(i) == CHOOSE j \in Hits(i) : \A k \in Hits(i) : j <= k

Value(contact, key) == GetOr(contact, key, <<>>)

StartEmpty == \A k \in 1..n : Value(orig[k], "match") = <<>> /\ Value(orig[k], "certainty") = <<>>

LinkReturned == pc = "deduped" /\ ~args.merge

MergeReturned == pc = "deduped" /\ args.merge

Owner(k) ==
    IF \E e \in Range(log) : e.duplicate = k
    THEN (CHOOSE e \in Range(log) : e.duplicate = k).master
    ELSE k

\* the contacts merge mode has gone through
Done == IF pc = "dedupe" THEN 1..(idx - 1) ELSE IF pc = "imported" THEN {} ELSE 1..n

SubValues(value) == Range(split(value, ";"))

\* the sub-values without the whitespace around them, the blank ones left out
Trimmed(value) == {strip(v) : v \in SubValues(value)} \ {<<>>}

Merging == args.merge /\ ~args.dry_run /\ raised = "none"

C6_NeverRaises == raised = "none"

\* C7 as stated: with --merge and --dry-run no contact is changed, no exporter is called,
\* and main, given any contacts at all, ends with status 0.
C7_DryRunNoEffect ==
    (args.merge /\ args.dry_run) =>
        /\ contacts = orig
        /\ output = <<>>
        /\ (pc = "exit" /\ orig # <<>>) => status = 0

\* the contact without its match and certainty
AddressBook(contact) == SelectSeq(contact, LAMBDA f : f[1] \notin {"match", "certainty"})

SameField(k, key) ==
    /\ Has(contacts[k], key) <=> Has(orig[k], key)
    /\ Value(contacts[k], key) = Value(orig[k], key)

\* C8: no contact's uid ever changes; in merge mode, dry-run or not, no contact's match
\* or certainty changes; in link mode nothing but match and certainty changes, and only
\* in contacts the loop has scanned (the second to the one before idx).
C8_MetadataFrame ==
    /\ Len(contacts) = n
    /\ \A k \in 1..n :
          /\ SameField(k, "uid")
          /\ args.merge => SameField(k, "match") /\ SameField(k, "certainty")
          /\ ~args.merge =>
                /\ AddressBook(contacts[k]) = AddressBook(orig[k])
                /\ (k \notin Done \/ k = 1) => contacts[k] = orig[k]

\* merge mode has merged a contact with non-empty match and certainty into a master
\* whose match and certainty are empty, and changed the master
C8_Witness ==
    /\ Merging /\ pc = "deduped"
    /\ \E e \in Range(log) :
          /\ Value(orig[e.duplicate], "match") # <<>>
          /\ Value(orig[e.duplicate], "certainty") # <<>>
          /\ Value(orig[e.master], "match") = <<>>
          /\ contacts[e.master] # orig[e.master]

----------------------------------------------------------------------------
(* compute_match_score on its own *)

MaxScoreLen == 2

\* the strings of at most len characters of chars
StringsOver(chars, len) == UNION {[1..k -> chars] : k \in 0..len}

\* a field that may be missing
Optional(key, values) == {<<>>} \cup {<<<<key, v>>>> : v \in values}

ScoreContacts ==
    {t \o e \o f : t \in Optional("tel", StringsOver({"5", "-", ";"}, MaxScoreLen)),
                   e \in Optional("email", StringsOver({"A", " ", ";"}, MaxScoreLen)),
                   f \in Optional("fn", StringsOver({"a", "b", " "}, MaxScoreLen))}

\* contacts to score a contact against, besides itself
ScoreOthers ==
    {<<<<"tel", <<"5">>>>, <<"email", <<"a">>>>, <<"fn", <<"a", " ", "b">>>>>>,
     <<<<"tel", <<"6", ";", "5", "5">>>>, <<"fn", <<"b", "a">>>>>>}

Unused ==
    /\ idx = 0
    /\ masters = <<>>
    /\ log = <<>>
    /\ field_order = <<>>
    /\ deduped = <<>>
    /\ output = <<>>
    /\ status = "running"
    /\ raised = "none"
    /\ result = <<>>
    /\ previous = <<>>

NoArgs == [threshold |-> DefaultThreshold, merge |-> FALSE, dry_run |-> FALSE]

InitScore ==
    /\ contacts \in {<<a>> : a \in ScoreContacts}
    /\ orig = contacts
    /\ args = NoArgs
    /\ pc = "score"
    /\ Unused

\* compute_match_score(a, b), b the contact itself or another one
ScorePair ==
    /\ pc = "score"
    /\ \E b \in {contacts[1]} \cup ScoreOthers :
          /\ contacts' = <<contacts[1], b>>
          /\ result' = compute_match_score(contacts[1], b)
    /\ pc' = "scored"
    /\ UNCHANGED <<orig, args, idx, masters, log, field_order, deduped, output, status, raised,
                   previous>>

NextScore == ScorePair

SpecScore == InitScore /\ [][NextScore]_vars

SelfScored == pc = "scored" /\ contacts[2] = contacts[1]

\* C5 as stated: a contact with a non-empty tel, email or fn scores 100 against itself.
C5_AsStated ==
    (SelfScored /\ \E key \in {"tel", "email", "fn"} : Value(contacts[1], key) # <<>>)
        => result = <<100, 1>>

HasChar(value, chars) == \E k \in DOMAIN value : value[k] \in chars

HasCharNot(value, chars) == \E k \in DOMAIN value : value[k] \notin chars

\* C5, amended: a contact whose tel holds a digit, or whose email holds a character that
\* is neither ';' nor whitespace, or whose fn holds a character that is not whitespace,
\* scores 100 against itself, unless its fn is non-empty and all whitespace.
C5_SelfScore ==
    LET a == contacts[1]
    IN  (/\ SelfScored
         /\ \/ HasChar(Value(a, "tel"), Digits)
            \/ HasCharNot(Value(a, "email"), {";"} \cup Whitespace)
            \/ HasCharNot(Value(a, "fn"), Whitespace)
         /\ Value(a, "fn") = <<>> \/ HasCharNot(Value(a, "fn"), Whitespace))
        => result = <<100, 1>>

\* a contact scored against itself on its phones, its emails and its name, its tel
\* holding a character that is no digit too
C5_Witness ==
    LET a == contacts[1]
    IN  /\ SelfScored
        /\ HasChar(Value(a, "tel"), Digits) /\ HasCharNot(Value(a, "tel"), Digits)
        /\ HasCharNot(Value(a, "email"), {";"} \cup Whitespace)
        /\ HasCharNot(Value(a, "fn"), Whitespace)
        /\ result = <<100, 1>>

----------------------------------------------------------------------------
(* merge_contacts on its own, called twice with the same duplicate *)

MaxValueLen == 3

MergeValues == StringsOver({"a", "b", ";", " "}, MaxValueLen)

InitMerger ==
    /\ contacts \in {<<<<<<"uid", IdxStr(0)>>>> \o t, <<<<"uid", IdxStr(1)>>, <<"tel", v>>>>>>
                     : t \in Optional("tel", MergeValues), v \in MergeValues}
    /\ orig = contacts
    /\ args = NoArgs
    /\ pc = "merge"
    /\ Unused

\* merge_contacts(master, duplicate); previous keeps the master as it was before the call
MergeCall ==
    /\ pc = "merge"
    /\ idx < 2
    /\ previous' = contacts[1]
    /\ contacts' = <<merge_contacts(contacts[1], contacts[2]), contacts[2]>>
    /\ idx' = idx + 1
    /\ UNCHANGED <<orig, args, pc, masters, log, field_order, deduped, output, status, raised,
                   result>>

NextMerger == MergeCall

SpecMerger == InitMerger /\ [][NextMerger]_vars

\* C4 as stated: the second merge_contacts(M, D) leaves every field of M as the first
\* call left it.
C4_Idempotent == idx = 2 => contacts[1] = previous

----------------------------------------------------------------------------
(* compute_field_order on its own *)

MaxOrderRecords == 2

OrderKeyPool == {"uid", "fn", "match", "certainty"}

\* the key orders a contact can have: no key twice
KeyLists ==
    {ks \in UNION {[1..k -> OrderKeyPool] : k \in 0..Cardinality(OrderKeyPool)} :
        \A p, q \in DOMAIN ks : p # q => ks[p] # ks[q]}

OrderContacts == {[k \in DOMAIN ks |-> <<ks[k], <<>>>>] : ks \in KeyLists}

InitOrder ==
    /\ contacts \in UNION {[1..k -> OrderContacts] : k \in 0..MaxOrderRecords}
    /\ orig = contacts
    /\ args = NoArgs
    /\ pc = "order"
    /\ Unused

FieldOrder ==
    /\ pc = "order"
    /\ field_order' = compute_field_order(contacts)
    /\ pc' = "ordered"
    /\ UNCHANGED <<contacts, orig, args, idx, masters, log, deduped, output, status, raised,
                   calls>>

NextOrder == FieldOrder

SpecOrder == InitOrder /\ [][NextOrder]_vars

\* where a key first occurs: the contact, then the place in it
FirstContact(key) == CHOOSE k \in 1..n : Has(orig[k], key) /\ \A m \in 1..(k - 1) : ~Has(orig[m], key)

Place(key) ==
    LET c == orig[FirstContact(key)]
    IN  <<FirstContact(key), CHOOSE p \in DOMAIN c : c[p][1] = key>>

Before(x, y) == x[1] < y[1] \/ (x[1] = y[1] /\ x[2] < y[2])

\* C9: compute_field_order returns every key of any contact except match and certainty,
\* each once, in the order of first occurrence over the contacts in list order and each
\* contact's keys in insertion order.
C9_FieldOrder ==
    pc = "ordered" =>
        LET keys == UNION {Keys(orig[k]) : k \in 1..n} \ {"match", "certainty"}
        IN  /\ Range(field_order) = keys
            /\ Len(field_order) = Cardinality(keys)
            /\ \A p, q \in DOMAIN field_order :
                  p < q => Before(Place(field_order[p]), Place(field_order[q]))

\* the order of two contacts that share a key, the second bringing a new key after
\* it, the first holding match before its other keys
C9_Witness ==
    /\ pc = "ordered"
    /\ n = 2
    /\ field_order = <<"fn", "uid">>
    /\ Len(orig[1]) = 2
    /\ orig[1][1][1] = "match"
    /\ Keys(orig[2]) = {"fn", "uid", "certainty"}
    /\ orig[2][1][1] = "uid"

----------------------------------------------------------------------------
(* deduplicate_contacts in merge mode, called as a dry run and then, on the *)
(* contacts the dry run left, for the merge                                 *)

InitPreview ==
    /\ contacts \in VcfInputs
    /\ orig = contacts
    /\ args \in [threshold : Thresholds, merge : {TRUE}, dry_run : {TRUE}]
    /\ pc = "preview"
    /\ Unused

\* the call leaves the contacts as r has them; kept is what it returned and acted on
Returned(r, kept) ==
    /\ contacts' = r.contacts
    /\ kept = [masters |-> r.masters, log |-> r.log]

\* deduplicate_contacts(contacts, threshold, merge=True, dry_run=True)
Preview ==
    /\ pc = "preview"
    /\ Returned(deduplicate_contacts(contacts, args.threshold, TRUE, TRUE), previous')
    /\ pc' = "merge"
    /\ UNCHANGED <<orig, args, idx, masters, log, field_order, deduped, output, status, raised,
                   result>>

\* deduplicate_contacts(contacts, threshold, merge=True, dry_run=False)
MergeRun ==
    /\ pc = "merge"
    /\ Returned(deduplicate_contacts(contacts, args.threshold, TRUE, FALSE), result')
    /\ args' = [args EXCEPT !.dry_run = FALSE]
    /\ pc' = "done"
    /\ UNCHANGED <<orig, idx, masters, log, field_order, deduped, output, status, raised,
                   previous>>

NextPreview ==
    \/ Preview
    \/ MergeRun

SpecPreview == InitPreview /\ [][NextPreview]_vars

Uids(ms) == [k \in DOMAIN ms |-> Get(orig[ms[k]], "uid")]

UidPairs(lg) ==
    [k \in DOMAIN lg |-> <<Get(orig[lg[k].duplicate], "uid"), Get(orig[lg[k].master], "uid")>>]

\* C10 as stated: the dry run selects the masters the merge selects, in the same order,
\* and reports the (duplicate uid, master uid) pairs the merge merges.
C10_FaithfulPreview ==
    pc = "done" =>
        /\ Uids(previous.masters) = Uids(result.masters)
        /\ UidPairs(previous.log) = UidPairs(result.log)

====
